---- MODULE Spec2Model ----
(***************************************************************************)
(* Model of my_model_selectors.py: the four model selectors                *)
(* (SelectorConstant, SelectorBIC, SelectorDIC, SelectorCV) selecting the  *)
(* number of hidden states of a GaussianHMM for one word.                  *)
(*                                                                         *)
(* The HMM engine is an environment: every fit either succeeds or fails,   *)
(* every model.score either raises or returns a log-likelihood; both are   *)
(* chosen nondeterministically at the step that calls them.                *)
(* Log-likelihoods are integers, means are exact fractions [num, den],     *)
(* and np.log is the integer logarithm Log (floating point rounding is     *)
(* not modelled).  A training sequence is named by its 1-based position in *)
(* self.sequences; an observation matrix X is the tuple of the sequences   *)
(* whose frames it concatenates.                                           *)
(***************************************************************************)
EXTENDS Integers, Sequences, FiniteSets, TLC

\* ----------------------------------------------------------------- bounds
MaxK == 2          \* min_n_components, max_n_components, n_constant in 1..MaxK
MaxSeqs == 3       \* the word has 1..MaxSeqs training sequences
MaxOthers == 1     \* 0..MaxOthers other words in the vocabulary
MaxAbsLogL == 1    \* model.score returns a value in -MaxAbsLogL..0
MaxFeatures == 2   \* 1..MaxFeatures features per frame

\* ------------------------------------------------------ program constants
num_splits == 3
default_n_constant == 3

VARIABLES
    strategy,            \* which subclass of ModelSelector this instance is
    min_n_components, max_n_components, n_constant,
    sequences,           \* self.sequences: frames of each training sequence
    num_features,        \* len(self.X[0])
    others,              \* number of words of self.words other than this_word
    X, lengths,          \* self.X, self.lengths
    pc,                  \* position inside select()
    num_states,          \* loop variable of select()
    results,             \* local list results
    score,               \* local variable score: the last score computed
    folds, fold,         \* the splits of split_method.split and the next one
    cv_scores,           \* local list cv_scores
    outcome, ret, err,   \* how select() ended: returned value / exception
    trials,              \* history: what the engine answered for each num_states
    foldLog,             \* history: the answer of each fold of this num_states
                         \* (Raised also when the fit failed: None.score raises)
    fitLog,              \* history: the data of every fit attempted
    kfoldReq             \* history: every n_splits handed to KFold

vars == <<strategy, min_n_components, max_n_components, n_constant, sequences,
          num_features, others, X, lengths, pc, num_states, results, score,
          folds, fold, cv_scores, outcome, ret, err, trials, foldLog, fitLog, kfoldReq>>

inputs == <<strategy, min_n_components, max_n_components, n_constant,
            sequences, num_features, others>>

Strategies == {"Constant", "BIC", "DIC", "CV"}

\* ---------------------------------------------------------------- values
\* Python None where a model is expected
None == [n_components |-> 0, X |-> <<>>, lengths |-> <<>>]

\* an answer of model.score: it raised, or returned ll
Raised == [ok |-> FALSE, ll |-> 0]
LogLs == (0 - MaxAbsLogL) .. 0
ScoreAnswers == {Raised} \cup {[ok |-> TRUE, ll |-> v] : v \in LogLs}

\* scores held by select(): a number num/den (den > 0), NaN, or None
Num(v) == [kind |-> "num", num |-> v, den |-> 1]
Frac(n, d) == [kind |-> "num", num |-> n, den |-> d]
NaN == [kind |-> "nan", num |-> 0, den |-> 1]
NoScore == [kind |-> "none", num |-> 0, den |-> 1]

\* float comparison: every comparison with NaN is false
Gt(a, b) == a.kind = "num" /\ b.kind = "num" /\ a.num * b.den > b.num * a.den
Lt(a, b) == Gt(b, a)

RECURSIVE SumSeq(_)
SumSeq(s) == IF s = <<>> THEN 0 ELSE s[1] + SumSeq(Tail(s))

\* np.log, as an integer logarithm (monotone, Log(1) = 0)
RECURSIVE Log(_)
Log(n) == IF n <= 1 THEN 0 ELSE 1 + Log(n \div 2)

\* np.mean of a list: NaN for the empty list
Mean(s) == IF s = <<>> THEN NaN ELSE Frac(SumSeq(s), Len(s))

\* a - b for a number a and a float b
Minus(a, b) == IF b.kind = "nan" THEN NaN ELSE Frac(a * b.den - b.num, b.den)

\* ------------------------------------------------------------------ data
\* the full flattened representation of this word, hwords[this_word]
FullX == [i \in 1 .. Len(sequences) |-> i]
FullLengths == sequences

\* len(X): the number of frames of an observation matrix
NumFrames(lengths_) == SumSeq(lengths_)

\* asl_utils.combine_sequences(split_index_list, sequences)
combine_sequences(idx, seqs) ==
    [X |-> idx, lengths |-> [i \in 1 .. Len(idx) |-> seqs[idx[i]]]]

\* ModelSelector.base_model: fitOk is the engine's answer
base_model(n, X_, lengths_, fitOk) ==
    IF fitOk THEN [n_components |-> n, X |-> X_, lengths |-> lengths_] ELSE None

\* one record of fitLog
FitRec(n, X_, lengths_) ==
    [n_components |-> n, X |-> X_, lengths |-> lengths_]

\* RangeDone with the upper end of the range one too far
RangeDoneOffByOne(k) == k > max_n_components + 1

\* range(self.min_n_components, self.max_n_components + 1) is exhausted
RangeDone(k) == k > max_n_components

\* max(results, key=itemgetter(1)) / min(...): the first extremal element
RECURSIVE MaxFrom(_, _, _)
MaxFrom(rs, i, best) ==
    IF i > Len(rs) THEN best
    ELSE MaxFrom(rs, i + 1, IF Gt(rs[i][2], best[2]) THEN rs[i] ELSE best)
PyMax(rs) == MaxFrom(rs, 2, rs[1])

RECURSIVE MinFrom(_, _, _)
MinFrom(rs, i, best) ==
    IF i > Len(rs) THEN best
    ELSE MinFrom(rs, i + 1, IF Lt(rs[i][2], best[2]) THEN rs[i] ELSE best)
PyMin(rs) == MinFrom(rs, 2, rs[1])

\* --------------------------------------------------------------- Init
Init ==
    /\ strategy \in Strategies
    /\ min_n_components \in 1 .. MaxK
    /\ max_n_components \in 1 .. MaxK
    /\ n_constant \in IF strategy = "Constant" THEN 1 .. MaxK ELSE {default_n_constant}
    /\ \E n \in 1 .. MaxSeqs : sequences = [i \in 1 .. n |-> i]
    /\ num_features \in IF strategy = "BIC" THEN 1 .. MaxFeatures ELSE {1}
    /\ others \in IF strategy = "DIC" THEN 0 .. MaxOthers ELSE {1}
    /\ X = FullX
    /\ lengths = FullLengths
    /\ pc = "idle"
    /\ num_states = 0
    /\ results = <<>>
    /\ score = NoScore
    /\ folds = <<>>
    /\ fold = 0
    /\ cv_scores = <<>>
    /\ outcome = "running"
    /\ ret = None
    /\ err = ""
    /\ trials = <<>>
    /\ foldLog = <<>>
    /\ fitLog = <<>>
    /\ kfoldReq = <<>>

\* ---------------------------------------------------- SelectorConstant
ConstantSelect ==
    /\ pc = "idle" /\ strategy = "Constant"
    /\ \E fitOk \in BOOLEAN :
         /\ ret' = base_model(n_constant, X, lengths, fitOk)
         /\ fitLog' = Append(fitLog, FitRec(n_constant, X, lengths))
    /\ outcome' = "returned"
    /\ pc' = "done"
    /\ UNCHANGED <<inputs, X, lengths, num_states, results, score, folds,
                   fold, cv_scores, err, trials, foldLog, kfoldReq>>

\* ------------------------------------------- entry of the looping selectors
\* results = [] and the first value of range(min_n_components, ...)
SelectBegin ==
    /\ pc = "idle" /\ strategy \in {"BIC", "DIC", "CV"}
    /\ results' = <<>>
    /\ num_states' = min_n_components
    /\ pc' = "loop"
    /\ UNCHANGED <<inputs, X, lengths, score, folds, fold, cv_scores, outcome,
                   ret, err, trials, foldLog, fitLog, kfoldReq>>

\* one record of trials
Trial(k, fitOk, own, anti, fl) ==
    [k |-> k, fit |-> fitOk, own |-> own, anti |-> anti, folds |-> fl]

\* min()/max() of an empty list
EmptySequenceError == "ValueError: arg is an empty sequence"
\* KFold(n_splits=...) with n_splits < 2
NSplitsError == "ValueError: n_splits must be 2 or more"
\* KFold.split with n_splits > n_samples
TooFewSamplesError == "ValueError: n_splits greater than the number of samples"

\* --------------------------------------------------------- SelectorBIC
\* BICScore with the sign of the likelihood term lost
BICScoreSignLost(n, ll, lengths_) ==
    LET num_param == n * n + 2 * num_features * n - 1
    IN  2 * ll + num_param * Log(NumFrames(lengths_))

\* SelectorBIC.score, ll being the answer of model.score(self.X, self.lengths)
BICScore(n, ll, lengths_) ==
    LET num_param == n * n + 2 * num_features * n - 1
    IN  (0 - 2) * ll + num_param * Log(NumFrames(lengths_))

\* BICIsValid with is_valid never reset by the except clause
BICIsValidNeverReset(model, ans) == TRUE

\* is_valid after the try/except: neither base_model's result (None has no
\* score method) nor model.score raised
BICIsValid(model, ans) == model # None /\ ans.ok

BICIter ==
    /\ pc = "loop" /\ strategy = "BIC" /\ ~RangeDone(num_states)
    /\ \E fitOk \in BOOLEAN, ans \in ScoreAnswers :
         /\ ~fitOk => ans = Raised
         /\ LET model == base_model(num_states, X, lengths, fitOk)
                bic == Num(BICScore(num_states, ans.ll, lengths))
            IN  /\ score' = IF model # None /\ ans.ok THEN bic ELSE score
                /\ results' = IF BICIsValid(model, ans)
                              THEN Append(results, <<model, score'>>)
                              ELSE results
         /\ fitLog' = Append(fitLog, FitRec(num_states, X, lengths))
         /\ trials' = Append(trials, Trial(num_states, fitOk, ans, <<>>, <<>>))
    /\ num_states' = num_states + 1
    /\ UNCHANGED <<inputs, X, lengths, pc, folds, fold, cv_scores, outcome,
                   ret, err, foldLog, kfoldReq>>

BICFinish ==
    /\ pc = "loop" /\ strategy = "BIC" /\ RangeDone(num_states)
    /\ IF results = <<>>
       THEN outcome' = "raised" /\ err' = EmptySequenceError /\ ret' = ret
       ELSE outcome' = "returned" /\ ret' = PyMin(results)[1] /\ err' = err
    /\ pc' = "done"
    /\ UNCHANGED <<inputs, X, lengths, num_states, results, score, folds,
                   fold, cv_scores, trials, foldLog, fitLog, kfoldReq>>

\* --------------------------------------------------------- SelectorDIC
\* the values appended to anti_evidences: the other words whose scoring
\* did not raise (scoring with None always raises)
RECURSIVE AntiEvidences(_, _)
AntiEvidences(model, anti) ==
    IF anti = <<>> THEN <<>>
    ELSE IF model # None /\ anti[1].ok
         THEN <<anti[1].ll>> \o AntiEvidences(model, Tail(anti))
         ELSE AntiEvidences(model, Tail(anti))

\* SelectorDIC.score
DICScore(model, own, anti) ==
    IF model = None \/ ~own.ok THEN NoScore
    ELSE Minus(own.ll, Mean(AntiEvidences(model, anti)))

\* "if score:" -- None and 0.0 are false, every other float (NaN too) is true
Truthy(v) ==
    \/ v.kind = "nan"
    \/ v.kind = "num" /\ v.num # 0

DICIter ==
    /\ pc = "loop" /\ strategy = "DIC" /\ ~RangeDone(num_states)
    /\ \E fitOk \in BOOLEAN, own \in ScoreAnswers,
          anti \in [1 .. others -> ScoreAnswers] :
         /\ ~fitOk => (own = Raised /\ \A i \in 1 .. others : anti[i] = Raised)
         /\ LET model == base_model(num_states, X, lengths, fitOk)
            IN  /\ score' = DICScore(model, own, anti)
                /\ results' = IF Truthy(score')
                              THEN Append(results, <<model, score'>>)
                              ELSE results
         /\ fitLog' = Append(fitLog, FitRec(num_states, X, lengths))
         /\ trials' = Append(trials, Trial(num_states, fitOk, own, anti, <<>>))
    /\ num_states' = num_states + 1
    /\ UNCHANGED <<inputs, X, lengths, pc, folds, fold, cv_scores, outcome,
                   ret, err, foldLog, kfoldReq>>

DICFinish ==
    /\ pc = "loop" /\ strategy = "DIC" /\ RangeDone(num_states)
    /\ IF results = <<>>
       THEN outcome' = "raised" /\ err' = EmptySequenceError /\ ret' = ret
       ELSE outcome' = "returned" /\ ret' = PyMax(results)[1] /\ err' = err
    /\ pc' = "done"
    /\ UNCHANGED <<inputs, X, lengths, num_states, results, score, folds,
                   fold, cv_scores, trials, foldLog, fitLog, kfoldReq>>

\* ---------------------------------------------------------- SelectorCV
\* NumSplits without the clamp to the number of sequences
NumSplitsUnclamped(n) == num_splits

\* the n_splits given to KFold for a word of n sequences
NumSplits(n) == IF n < num_splits THEN n ELSE num_splits

Min2(a, b) == IF a < b THEN a ELSE b
SeqOfRange(a, b) == [j \in 1 .. (b - a + 1) |-> a + j - 1]

\* KFold(n_splits=k).split of n samples, no shuffling: consecutive test
\* blocks, the first n % k of them one longer; train is the rest, in order
KFoldSplit(n, k) ==
    [i \in 1 .. k |->
        LET size == (n \div k) + (IF i <= n % k THEN 1 ELSE 0)
            start == (i - 1) * (n \div k) + Min2(i - 1, n % k)
        IN  [train |-> SeqOfRange(1, start) \o SeqOfRange(start + size + 1, n),
             test |-> SeqOfRange(start + 1, start + size)]]

\* CVScoresAfter with a failed fold counted as a score of zero
CVScoresZeroOnFailure(scores, model, ans) ==
    IF model # None /\ ans.ok THEN Append(scores, ans.ll) ELSE Append(scores, 0)

\* cv_scores after one fold: the score is appended unless the fit failed
\* (None has no score method) or model.score raised
CVScoresAfter(scores, model, ans) ==
    IF model # None /\ ans.ok THEN Append(scores, ans.ll) ELSE scores

\* results after the folds of num_states k
CVResultsAfter(rs, k, scores) ==
    IF Len(scores) # 0 THEN Append(rs, <<k, Mean(scores)>>) ELSE rs

\* FinalData without the restore: whatever the last fold left in the buffer
FinalDataNotRestored == [X |-> X, lengths |-> lengths]

\* the data the final model is fitted on: self.hwords[self.this_word]
FinalData == [X |-> FullX, lengths |-> FullLengths]

\* start of one iteration over num_states: build KFold, start the split
CVSplit ==
    /\ pc = "loop" /\ strategy = "CV" /\ ~RangeDone(num_states)
    /\ LET n == Len(sequences)
           n_splits == NumSplits(n)
       IN  /\ kfoldReq' = Append(kfoldReq, n_splits)
           /\ IF n_splits < 2
              THEN /\ outcome' = "raised" /\ err' = NSplitsError /\ pc' = "done"
                   /\ UNCHANGED <<folds, fold, cv_scores, foldLog>>
              ELSE IF n_splits > n
              THEN /\ outcome' = "raised" /\ err' = TooFewSamplesError
                   /\ pc' = "done"
                   /\ UNCHANGED <<folds, fold, cv_scores, foldLog>>
              ELSE /\ folds' = KFoldSplit(n, n_splits)
                   /\ fold' = 1
                   /\ cv_scores' = <<>>
                   /\ foldLog' = <<>>
                   /\ pc' = "fold"
                   /\ UNCHANGED <<outcome, err>>
    /\ UNCHANGED <<inputs, X, lengths, num_states, results, score, ret, trials,
                   fitLog>>

\* one fold: fit on the train split, score the test split
CVFold ==
    /\ pc = "fold" /\ fold <= Len(folds)
    /\ \E fitOk \in BOOLEAN, ans \in ScoreAnswers :
         /\ ~fitOk => ans = Raised
         /\ LET train == combine_sequences(folds[fold].train, sequences)
                test == combine_sequences(folds[fold].test, sequences)
                model == base_model(num_states, train.X, train.lengths, fitOk)
            IN  /\ X' = test.X
                /\ lengths' = test.lengths
                /\ score' = IF model # None /\ ans.ok THEN Num(ans.ll) ELSE score
                /\ cv_scores' = CVScoresAfter(cv_scores, model, ans)
                /\ fitLog' = Append(fitLog,
                       FitRec(num_states, train.X, train.lengths))
                /\ foldLog' = Append(foldLog, ans)
    /\ fold' = fold + 1
    /\ UNCHANGED <<inputs, pc, num_states, results, folds, outcome, ret, err,
                   trials, kfoldReq>>

\* after the last fold: record the mean, go to the next num_states
CVRecord ==
    /\ pc = "fold" /\ fold > Len(folds)
    /\ results' = CVResultsAfter(results, num_states, cv_scores)
    /\ trials' = Append(trials, Trial(num_states, FALSE, Raised, <<>>, foldLog))
    /\ num_states' = num_states + 1
    /\ pc' = "loop"
    /\ UNCHANGED <<inputs, X, lengths, score, folds, fold, cv_scores, outcome,
                   ret, err, foldLog, fitLog, kfoldReq>>

\* after the loop: pick the best num_states, restore the data, fit
CVFinish ==
    /\ pc = "loop" /\ strategy = "CV" /\ RangeDone(num_states)
    /\ IF results = <<>>
       THEN /\ outcome' = "raised" /\ err' = EmptySequenceError
            /\ UNCHANGED <<X, lengths, ret, fitLog>>
       ELSE LET best_num_components == PyMax(results)[1]
            IN  /\ X' = FinalData.X
                /\ lengths' = FinalData.lengths
                /\ \E fitOk \in BOOLEAN :
                     /\ ret' = base_model(best_num_components, FinalData.X,
                                          FinalData.lengths, fitOk)
                     /\ fitLog' = Append(fitLog,
                            FitRec(best_num_components, FinalData.X,
                                   FinalData.lengths))
                /\ outcome' = "returned"
                /\ err' = err
    /\ pc' = "done"
    /\ UNCHANGED <<inputs, num_states, results, score, folds, fold, cv_scores,
                   trials, foldLog, kfoldReq>>

Next ==
    \/ ConstantSelect
    \/ SelectBegin
    \/ BICIter
    \/ BICFinish
    \/ DICIter
    \/ DICFinish
    \/ CVSplit
    \/ CVFold
    \/ CVRecord
    \/ CVFinish

Spec == Init /\ [][Next]_vars

\* ===================================================================
\* Properties
\* ===================================================================
Done == pc = "done"
Ks == min_n_components .. max_n_components
TrialIdx == 1 .. Len(trials)
\* the model base_model returns for k states fitted on the whole item
FullModel(k) == [n_components |-> k, X |-> FullX, lengths |-> FullLengths]
\* every state count of the range was tried, once, in order
AllTried == /\ Len(trials) = Cardinality(Ks)
            /\ \A i \in TrialIdx : trials[i].k = min_n_components + i - 1

\* ------------------------------------------------------------------ C1
\* the state counts whose fit and whose scoring on the item succeeded
OwnSucceeded == {i \in TrialIdx : trials[i].fit /\ trials[i].own.ok}
\* BIC(k) = -2 logL(k) + (k^2 + 2 F k - 1) log(N), N the frames of the item
BICOf(i) ==
    LET k == trials[i].k
    IN  (0 - 2) * trials[i].own.ll
        + (k * k + 2 * num_features * k - 1) * Log(SumSeq(sequences))

\* C1: when SelectorBIC.select() ends and some state count was fitted and
\* scored successfully, it returns the model fitted on the item for a
\* successful state count whose BIC is the minimum over the successful ones;
\* the comparison set holds the successful candidates and no other.
C1_BICSelectsMinimum ==
    (strategy = "BIC" /\ Done) =>
        /\ AllTried
        /\ Len(results) = Cardinality(OwnSucceeded)
        /\ \A j \in 1 .. Len(results) :
             \E i \in OwnSucceeded : /\ results[j][1] = FullModel(trials[i].k)
                                     /\ results[j][2] = Num(BICOf(i))
        /\ OwnSucceeded # {} =>
             /\ outcome = "returned"
             /\ \E i \in OwnSucceeded :
                  /\ ret = FullModel(trials[i].k)
                  /\ \A j \in OwnSucceeded : BICOf(i) <= BICOf(j)

\* two candidates succeeded with different BIC and the later one won
C1_Witness ==
    /\ strategy = "BIC" /\ Done /\ outcome = "returned"
    /\ Cardinality(OwnSucceeded) = 2
    /\ ret.n_components = 2
    /\ BICOf(2) < BICOf(1)

\* ------------------------------------------------------------------ C2
\* the folds of trial i whose fit and held-out scoring both succeeded
OkFolds(i) == {f \in 1 .. Len(trials[i].folds) : trials[i].folds[f].ok}
RECURSIVE SumOkLL(_)
SumOkLL(fl) ==
    IF fl = <<>> THEN 0
    ELSE (IF fl[1].ok THEN fl[1].ll ELSE 0) + SumOkLL(Tail(fl))
\* the entries of results recorded for state count k
Recorded(k) == {j \in 1 .. Len(results) : results[j][1] = k}
\* mean held-out log-likelihood of trial i >= that of trial j (both non-empty)
MeanGeq(i, j) ==
    SumOkLL(trials[i].folds) * Cardinality(OkFolds(j))
        >= SumOkLL(trials[j].folds) * Cardinality(OkFolds(i))

\* C2: in SelectorCV.select(), for every state count whose folds are over,
\* nothing is recorded iff no fold succeeded, and otherwise the one value
\* recorded is the sum of the held-out log-likelihoods of the successful
\* folds divided by their number; when select() ends having recorded a
\* value, the state count of the final fit has the greatest recorded mean.
C2_CVMeanOfSuccessfulFolds ==
    strategy = "CV" =>
        /\ \A i \in TrialIdx :
             IF OkFolds(i) = {}
             THEN Recorded(trials[i].k) = {}
             ELSE /\ Cardinality(Recorded(trials[i].k)) = 1
                  /\ \A j \in Recorded(trials[i].k) :
                       /\ results[j][2].kind = "num"
                       /\ results[j][2].num * Cardinality(OkFolds(i))
                            = results[j][2].den * SumOkLL(trials[i].folds)
        /\ \A j \in 1 .. Len(results) : \E i \in TrialIdx : trials[i].k = results[j][1]
        /\ (Done /\ \E i \in TrialIdx : OkFolds(i) # {}) =>
             /\ outcome = "returned"
             /\ \E i \in TrialIdx :
                  /\ OkFolds(i) # {}
                  /\ fitLog[Len(fitLog)].n_components = trials[i].k
                  /\ \A j \in TrialIdx : OkFolds(j) # {} => MeanGeq(i, j)

\* a state count with a failed fold and a successful fold of non-zero
\* log-likelihood was recorded, another state count was excluded, and
\* select() returned
C2_Witness ==
    /\ strategy = "CV" /\ Done /\ outcome = "returned"
    /\ \E i \in TrialIdx :
         /\ \E f \in OkFolds(i) : trials[i].folds[f].ll # 0
         /\ Cardinality(OkFolds(i)) < Len(trials[i].folds)
    /\ \E i \in TrialIdx : OkFolds(i) = {}

\* ------------------------------------------------------------------ C3
\* C3: when SelectorCV.select() returns, the selector's buffer holds the
\* whole item and the last fit (the one whose model is returned) was made on
\* all the sequences of the item, which no fold's train or test split is.
C3_CVFinalFitOnFullItem ==
    (strategy = "CV" /\ Done /\ outcome = "returned") =>
        /\ X = [i \in 1 .. Len(sequences) |-> i]
        /\ lengths = sequences
        /\ fitLog[Len(fitLog)].X = [i \in 1 .. Len(sequences) |-> i]
        /\ fitLog[Len(fitLog)].lengths = sequences
        /\ ret # None => (ret.X = [i \in 1 .. Len(sequences) |-> i]
                          /\ ret.lengths = sequences)
        /\ \A f \in 1 .. Len(folds) :
             /\ folds[f].train # [i \in 1 .. Len(sequences) |-> i]
             /\ folds[f].test # [i \in 1 .. Len(sequences) |-> i]

\* select() returned a fitted model although the last fold processed failed
C3_Witness ==
    /\ strategy = "CV" /\ Done /\ outcome = "returned" /\ ret # None
    /\ foldLog # <<>> /\ ~foldLog[Len(foldLog)].ok
    /\ Len(sequences) = 3

\* ------------------------------------------------------------------ C4
\* C4: when SelectorDIC.select() ends, the comparison set holds exactly the
\* state counts whose fit and whose scoring on the item's own data
\* succeeded, and when there is one, select() returns one of their models
\* that no other member of the set beats.
C4_DICComparisonSet ==
    (strategy = "DIC" /\ Done) =>
        /\ AllTried
        /\ {results[j][1] : j \in 1 .. Len(results)}
             = {FullModel(trials[i].k) : i \in OwnSucceeded}
        /\ OwnSucceeded # {} =>
             /\ outcome = "returned"
             /\ \E j \in 1 .. Len(results) :
                  /\ ret = results[j][1]
                  /\ \A h \in 1 .. Len(results) : ~Gt(results[h][2], results[j][2])

\* ------------------------------------------------------------------ C5
\* the log-likelihoods of the other words whose scoring succeeded
OkAnti(t) == {a \in 1 .. Len(t.anti) : t.anti[a].ok}
\* C5: after an iteration of SelectorDIC.select() in which the fit and the
\* item's own scoring succeeded, score is a number, equal to the own
\* log-likelihood minus the mean log-likelihood of the other words whose
\* scoring succeeded, whichever of them failed.
C5_DICScoreMeanOfSucceeded ==
    (strategy = "DIC" /\ trials # <<>>
       /\ trials[Len(trials)].fit /\ trials[Len(trials)].own.ok) =>
        LET t == trials[Len(trials)]
            cnt == Cardinality(OkAnti(t))
        IN  /\ score.kind = "num"
            /\ score.num * cnt = score.den * (t.own.ll * cnt - SumOkLL(t.anti))

\* ------------------------------------------------------------------ C6
\* no state count produced a usable candidate
NoneSucceeded ==
    IF strategy = "CV" THEN \A i \in TrialIdx : OkFolds(i) = {}
    ELSE OwnSucceeded = {}
\* C6: when select() of SelectorBIC, SelectorDIC or SelectorCV ends on a
\* non-empty range in which no state count was fitted and scored
\* successfully (CV: no fold of any state count), it ends by raising and
\* returns nothing.
C6_TotalFailureRaises ==
    (strategy \in {"BIC", "DIC", "CV"} /\ Done /\ Ks # {} /\ NoneSucceeded) =>
        /\ outcome = "raised"
        /\ err # ""
        /\ ret = None
        /\ results = <<>>

\* SelectorCV tried every fold of two state counts and all of them failed
C6_Witness ==
    /\ strategy = "CV" /\ Done /\ outcome = "raised"
    /\ Len(trials) = 2 /\ NoneSucceeded
    /\ \A i \in TrialIdx : Len(trials[i].folds) >= 2

\* ------------------------------------------------------------------ C7
\* C7: select() of SelectorBIC, SelectorDIC and SelectorCV ends either by
\* returning a fitted model (never None) or by raising, and the models of
\* the comparison set of BIC and DIC are fitted models.
C7_ReturnsFittedModelOrRaises ==
    strategy \in {"BIC", "DIC", "CV"} =>
        /\ strategy \in {"BIC", "DIC"} =>
             \A j \in 1 .. Len(results) : results[j][1] # None
        /\ Done => \/ outcome = "returned" /\ ret # None
                   \/ outcome = "raised" /\ ret = None

\* ------------------------------------------------------------------ C8
\* C8 as stated, for all four strategies: with min_n_components >
\* max_n_components no fit is ever attempted and select() ends by raising
\* the no-candidate failure.
C8_EmptyRangeFailsAllStrategies ==
    min_n_components > max_n_components =>
        /\ fitLog = <<>>
        /\ Done => (outcome = "raised" /\ err = EmptySequenceError /\ ret = None)

\* C8 amended: the same for SelectorBIC, SelectorDIC and SelectorCV (no fit,
\* no fold split, no score; the failure is that of min()/max() over the empty
\* list of candidates), while SelectorConstant ignores the range, fits
\* n_constant once and returns what the fit gave.
C8_EmptyRangeFailsLoopingSelectors ==
    min_n_components > max_n_components =>
        /\ strategy \in {"BIC", "DIC", "CV"} =>
             /\ fitLog = <<>> /\ kfoldReq = <<>> /\ trials = <<>> /\ results = <<>>
             /\ X = FullX /\ lengths = FullLengths
             /\ Done => (outcome = "raised" /\ err = EmptySequenceError
                         /\ ret = None)
        /\ (strategy = "Constant" /\ Done) =>
             /\ fitLog = <<FitRec(n_constant, FullX, FullLengths)>>
             /\ outcome = "returned"
             /\ ret \in {None, FullModel(n_constant)}

\* SelectorCV ended on an empty range
C8_Witness ==
    /\ strategy = "CV" /\ min_n_components > max_n_components
    /\ Done /\ outcome = "raised"

\* ------------------------------------------------------------------ C9
\* C9: SelectorCV hands KFold min(3, n) splits for a word of n sequences,
\* never more than n; with n = 1 no split of 3 is asked for, no fold is
\* ever split, fitted or scored, and select() ends by raising, on a
\* non-empty range with KFold's refusal of a single split.
C9_CVFoldCountClamped ==
    strategy = "CV" =>
        LET n == Len(sequences)
        IN  /\ \A r \in 1 .. Len(kfoldReq) :
                 /\ kfoldReq[r] = (IF n < 3 THEN n ELSE 3)
                 /\ kfoldReq[r] <= n
            /\ n = 1 =>
                 /\ folds = <<>> /\ fitLog = <<>> /\ foldLog = <<>>
                 /\ cv_scores = <<>> /\ results = <<>>
                 /\ Done => /\ outcome = "raised"
                            /\ Ks # {} => (err = NSplitsError /\ kfoldReq = <<1>>)

\* a word of one sequence, a non-empty range: KFold refused the single split
C9_Witness ==
    /\ strategy = "CV" /\ Len(sequences) = 1 /\ Ks # {}
    /\ Done /\ err = NSplitsError /\ kfoldReq = <<1>>

\* ----------------------------------------------------------------- C10
\* C10: whenever SelectorCV.select() has ended, by returning or by raising,
\* X and lengths are the full representation of the item.
C10_CVBufferRestoredAtEnd ==
    (strategy = "CV" /\ Done) =>
        /\ X = [i \in 1 .. Len(sequences) |-> i]
        /\ lengths = sequences
====
